---- MODULE Spec2Model ----
(***************************************************************************)
(* HomeComponent of src/app/pages/home/home.component.ts: a todo list held *)
(* in two arrays (todos, tempTodos), an edit gate and a storage mirror.    *)
(*                                                                         *)
(* JavaScript arrays and objects are reference values, so the model keeps  *)
(* a heap of Todo objects: todos and tempTodos are sequences of references *)
(* into it, `aliased` says whether the two fields hold the same array, and *)
(* todoSelectedToEdit is a reference (or Undefined).  The heap is kept     *)
(* garbage-free and numbered in order of first use, so that two states     *)
(* that differ only in the addresses of their objects are one state.       *)
(***************************************************************************)
EXTENDS Integers, Sequences, FiniteSets, TLC

\* ---------------------------------------------------------------- bounds
MaxStored == 2      \* longest list found in storage when the page opens
MaxCalls == 3       \* calls of the component's methods followed after ngOnInit

\* ------------------------------------------------------------- constants
Undefined == 0      \* todoSelectedToEdit before any selectTodoToEdit

\* What the storage key "todos" holds: nothing (getItem answers null), or a list.
Null == [set |-> FALSE, value |-> <<>>]
Stored(list) == [set |-> TRUE, value |-> list]

\* router.url: the three routes of the application, and one it does not know.
Routes == {"/", "/completed", "/pending", "/about"}

Keys == {"Enter", "Escape", "a"}

\* The text of an input field, as a sequence of characters.
RawTexts == { <<" ", "b", " ">> }

VARIABLES
    heap,                \* the Todo objects: heap[r] is the object at reference r
    todos,               \* this.todos: sequence of references
    tempTodos,           \* this.tempTodos: sequence of references
    aliased,             \* this.todos and this.tempTodos are the same array
    editMode,            \* this.editMode
    todoSelectedToEdit,  \* this.todoSelectedToEdit: a reference, or Undefined
    currentUrl,          \* this.currentUrl
    storage,             \* the value stored under "todos", or Null
    now,                 \* the millisecond clock read by Date.now()
    pc,                  \* "constructed" until ngOnInit has run, then "ready"
    calls,               \* the number of handler calls since ngOnInit
    last,                \* history: the most recent handler call and its inputs
    pre                  \* history: the component's state before that call

vars == << heap, todos, tempTodos, aliased, editMode, todoSelectedToEdit,
           currentUrl, storage, now, pc, calls, last, pre >>

\* ------------------------------------------------------------ Todo values
Todo(id, title, completed) ==
    [id |-> id, title |-> title, completed |-> completed]

\* String.prototype.trim on a sequence of characters.
RECURSIVE TrimStart(_)
TrimStart(s) ==
    IF s = <<>> THEN <<>>
    ELSE IF Head(s) = " " THEN TrimStart(Tail(s)) ELSE s

RECURSIVE TrimEnd(_)
TrimEnd(s) ==
    IF s = <<>> THEN <<>>
    ELSE IF s[Len(s)] = " " THEN TrimEnd(SubSeq(s, 1, Len(s) - 1)) ELSE s

Trim(s) == TrimEnd(TrimStart(s))

\* The values of the objects a sequence of references points to.
Vals(h, refs) == [i \in DOMAIN refs |-> h[refs[i]]]

\* Array.prototype.filter over references, with the predicates the component
\* uses: Todo.completed, !Todo.completed, todo.completed === false.
FilterCompleted(h, refs) == SelectSeq(refs, LAMBDA r : h[r].completed)

FilterNotCompleted(h, refs) == SelectSeq(refs, LAMBDA r : ~h[r].completed)

\* Variant of FilterCompletedFalse: the test inverted.
FilterCompletedTrue(h, refs) == SelectSeq(refs, LAMBDA r : h[r].completed = TRUE)

FilterCompletedFalse(h, refs) == SelectSeq(refs, LAMBDA r : h[r].completed = FALSE)

\* ------------------------------------------------------ heap housekeeping
RECURSIVE Dedup(_, _)
Dedup(s, seen) ==
    IF s = <<>> THEN <<>>
    ELSE IF Head(s) \in seen THEN Dedup(Tail(s), seen)
         ELSE <<Head(s)>> \o Dedup(Tail(s), seen \cup {Head(s)})

\* The live references, in order of first use.
Live(td, tt, sel) ==
    Dedup(td \o tt \o (IF sel = Undefined THEN <<>> ELSE <<sel>>), {})

Pos(order, r) == CHOOSE i \in DOMAIN order : order[i] = r

\* The component's object graph after a handler, with the live objects
\* `order`: drops the others and renumbers these in order of first use.
SetGraphIn(order, h, td, tt, al, sel) ==
    LET at == [r \in DOMAIN h |->
                 IF \E i \in DOMAIN order : order[i] = r THEN Pos(order, r) ELSE 0]
    IN /\ heap' = [i \in DOMAIN order |-> h[order[i]]]
       /\ todos' = [i \in DOMAIN td |-> at[td[i]]]
       /\ tempTodos' = [i \in DOMAIN tt |-> at[tt[i]]]
       /\ aliased' = al
       /\ todoSelectedToEdit' = IF sel = Undefined THEN Undefined ELSE at[sel]

SetGraph(h, td, tt, al, sel) == SetGraphIn(Live(td, tt, sel), h, td, tt, al, sel)

\* ------------------------------------------------------- LocalStorageService
\* getItem('todos'): the stored list, or Null when nothing was ever stored.
getItem == storage

\* setItem('todos', array): the stored value is a snapshot of the objects'
\* fields at the time of the call (a serialisation, not a reference).
setItem(h, refs) == Stored(Vals(h, refs))

\* The lists a previous page session can have left in storage: at most
\* MaxStored entries, each completed or not, the entry at position i of a
\* list of n created at time n + 1 - i (new todos go to the front).  The
\* clock of this session starts after all of them.
StoredTitle == <<"a">>

StoredLists ==
    UNION { [1..n -> { Todo(0, StoredTitle, c) : c \in BOOLEAN }] : n \in 0..MaxStored }

Stamp(list) ==
    [i \in DOMAIN list |-> Todo(Len(list) + 1 - i, list[i].title, list[i].completed)]

InitialStorage == {Null} \cup { Stored(Stamp(l)) : l \in StoredLists }

\* -------------------------------------------------------------- history
\* last: the most recent call: its name, its inputs (key and text of a
\* keyboard event, id of the todo handed over or created), what it returned
\* (pendingTodos), whether it is an editTodo right after selectTodoToEdit,
\* whether it is a toggleCheck right after a toggleCheck of the same id, and
\* the most recent call other than selectTodoToEdit and pendingTodos.
\* pre: what the component held when that call began; `selected` is the set
\* of positions of tempTodos that held the object todoSelectedToEdit,
\* `edited` is the selected object's value (a list of one, empty when none
\* is selected), `first` is visible as it was before the first of two
\* toggleChecks in a row.
Again(op, id) == op = "toggleCheck" /\ last.op = "toggleCheck" /\ last.id = id

Record(op, key, raw, id, ret) ==
    /\ last' = [op |-> op, key |-> key, raw |-> raw, id |-> id, ret |-> ret,
                afterSelect |-> (op = "editTodo" /\ last.op = "selectTodoToEdit"),
                again |-> Again(op, id),
                listOp |-> IF op \in {"selectTodoToEdit", "pendingTodos"}
                           THEN last.listOp ELSE op]
    /\ pre' = [visible |-> Vals(heap, tempTodos),
               all |-> Vals(heap, todos),
               storage |-> storage,
               editMode |-> editMode,
               selected |-> { i \in DOMAIN tempTodos : tempTodos[i] = todoSelectedToEdit },
               edited |-> IF todoSelectedToEdit = Undefined
                          THEN <<>> ELSE <<heap[todoSelectedToEdit]>>,
               first |-> IF Again(op, id) THEN pre.visible ELSE <<>>]

NoCall ==
    [op |-> "constructor", key |-> "", raw |-> <<>>, id |-> 0, ret |-> 0,
     afterSelect |-> FALSE, again |-> FALSE, listOp |-> "constructor"]

Nothing ==
    [visible |-> <<>>, all |-> <<>>, storage |-> Null, editMode |-> FALSE,
     selected |-> {}, edited |-> <<>>, first |-> <<>>]

\* ------------------------------------------------------------- handlers
Init ==
    /\ heap = <<>>
    /\ todos = <<>>
    /\ tempTodos = <<>>
    /\ aliased = FALSE
    /\ editMode = FALSE
    /\ todoSelectedToEdit = Undefined
    /\ currentUrl = ""
    /\ storage \in InitialStorage
    /\ now = MaxStored + 1
    /\ pc = "constructed"
    /\ calls = 0
    /\ last = NoCall
    /\ pre = Nothing

\* A handler is called: Angular has run ngOnInit before any event reaches it.
Called ==
    /\ pc = "ready"
    /\ calls < MaxCalls
    /\ calls' = calls + 1

\* Variant of saveTodos: tempTodos is written on every route.
saveTodosVisible(url, h, td, tt) == setItem(h, tt)

\* saveTodos(): what the call writes under "todos", given the arrays it sees.
saveTodos(url, h, td, tt) ==
    IF url = "/completed" THEN setItem(h, td) ELSE setItem(h, tt)

\* The end of a handler that calls saveTodos(): the object graph it leaves,
\* and what it stored.
Saved(h, td, tt, al, sel) ==
    /\ SetGraph(h, td, tt, al, sel)
    /\ storage' = saveTodos(currentUrl, h, td, tt)

\* Variant of filterTodos: every case falls through to the default.
filterTodosNoBreak(url, h, td) == [refs |-> td, same |-> TRUE]

\* filterTodos(): the new tempTodos, and whether it is the todos array itself.
filterTodos(url, h, td) ==
    CASE url = "/completed" -> [refs |-> FilterCompleted(h, td), same |-> FALSE]
      [] url = "/pending"   -> [refs |-> FilterNotCompleted(h, td), same |-> FALSE]
      [] OTHER              -> [refs |-> td, same |-> TRUE]

ngOnInit(url) ==
    /\ pc = "constructed"
    /\ pc' = "ready"
    /\ currentUrl' = url
    /\ IF getItem # Null
       THEN LET h  == getItem.value              \* freshly parsed objects
                td == [i \in DOMAIN h |-> i]
                f  == filterTodos(url, h, td)
            IN SetGraph(h, td, f.refs, f.same, todoSelectedToEdit)
       ELSE UNCHANGED << heap, todos, tempTodos, aliased, todoSelectedToEdit >>
    /\ Record("ngOnInit", "", <<>>, 0, 0)
    /\ UNCHANGED << editMode, storage, now, calls >>

\* The millisecond clock at a call: what it last showed, or later.
Clock == {now, now + 1}

\* Variant of isEnter: every key counts as Enter.
isAnyKey(key) == TRUE

\* event.key === 'Enter'
isEnter(key) == key = "Enter"

\* Variant of unshift: the element goes to the end.
push(refs, r) == Append(refs, r)

\* Array.prototype.unshift of one element.
unshift(refs, r) == <<r>> \o refs

addNewTodo(key, raw, t) ==
    /\ Called
    /\ t \in Clock                                \* Date.now() at the call
    /\ LET title   == Trim(raw)
           newTodo == Todo(t, title, FALSE)
           h       == Append(heap, newTodo)
           r       == Len(h)
       IN IF isEnter(key)
          THEN /\ now' = t
               /\ LET tt == unshift(tempTodos, r)  \* in place
                      td == IF aliased THEN tt ELSE todos
                  IN /\ Saved(h, td, tt, aliased, todoSelectedToEdit)
               /\ Record("addNewTodo", key, raw, t, 0)
          ELSE /\ UNCHANGED << heap, todos, tempTodos, aliased, todoSelectedToEdit, now >>
               /\ storage' = saveTodos(currentUrl, heap, todos, tempTodos)
               /\ Record("addNewTodo", key, raw, 0, 0)
    /\ UNCHANGED << editMode, currentUrl, pc >>

\* Variant of toggled: completed is set, not negated.
toggledSetsTrue(item) == Todo(item.id, item.title, TRUE)

\* { ...item, completed: !item.completed }
toggled(item) == Todo(item.id, item.title, ~item.completed)

\* The map of toggleCheck: a new array in which every entry whose id is `id`
\* is a new object, the old one with completed negated.  Returns the heap
\* and the new array.
RECURSIVE MapToggle(_, _, _)
MapToggle(h, refs, id) ==
    IF refs = <<>> THEN [h |-> h, refs |-> <<>>]
    ELSE LET item == h[Head(refs)]
             rest == MapToggle(h, Tail(refs), id)
         IN IF id = item.id
            THEN LET h2 == Append(rest.h, toggled(item))
                 IN [h |-> h2, refs |-> <<Len(h2)>> \o rest.refs]
            ELSE [h |-> rest.h, refs |-> <<Head(refs)>> \o rest.refs]

toggleCheck(id) ==
    /\ Called
    /\ LET m == MapToggle(heap, tempTodos, id)
       IN /\ Saved(m.h, todos, m.refs, FALSE, todoSelectedToEdit)
    /\ Record("toggleCheck", "", <<>>, id, 0)
    /\ UNCHANGED << editMode, currentUrl, now, pc >>

\* Variant of FilterDelete: the comparison inverted.
FilterDeleteOthers(h, refs, id) == SelectSeq(refs, LAMBDA r : h[r].id = id)

\* The filter of deleteTodo: the entries whose id is not `id`.
FilterDelete(h, refs, id) == SelectSeq(refs, LAMBDA r : h[r].id # id)

deleteTodo(id) ==
    /\ Called
    /\ LET tt == FilterDelete(heap, tempTodos, id)
           td == tt                               \* this.todos = this.tempTodos
       IN /\ Saved(heap, td, tt, TRUE, todoSelectedToEdit)
    /\ Record("deleteTodo", "", <<>>, id, 0)
    /\ UNCHANGED << editMode, currentUrl, now, pc >>

\* The view hands selectTodoToEdit an entry of the displayed list.
selectTodoToEdit(i) ==
    /\ Called
    /\ i \in DOMAIN tempTodos
    /\ editMode' = TRUE
    /\ SetGraph(heap, todos, tempTodos, aliased, tempTodos[i])
    /\ Record("selectTodoToEdit", "", <<>>, heap[tempTodos[i]].id, 0)
    /\ UNCHANGED << currentUrl, storage, now, pc >>

\* The map of editTodo on Enter: a new array in which every entry whose id is
\* the selected todo's id is a new object, a copy of the selected todo.
RECURSIVE MapEdit(_, _, _)
MapEdit(h, refs, sel) ==
    IF refs = <<>> THEN [h |-> h, refs |-> <<>>]
    ELSE LET rest == MapEdit(h, Tail(refs), sel)
         IN IF h[sel].id = h[Head(refs)].id
            THEN LET h2 == Append(rest.h, h[sel])
                 IN [h |-> h2, refs |-> <<Len(h2)>> \o rest.refs]
            ELSE [h |-> rest.h, refs |-> <<Head(refs)>> \o rest.refs]

\* Variant of assignTitle: the selected object is left as it is.
assignNothing(h, sel, title) == h

\* this.todoSelectedToEdit.title = title: a write into the selected object.
assignTitle(h, sel, title) == [h EXCEPT ![sel].title = title]

\* Variant of editModeOnKey: every key clears editMode.
editModeAlwaysOff(key, mode) == FALSE

\* editMode after editTodo: Escape and Enter clear it, any other key keeps it.
editModeOnKey(key, mode) ==
    IF key = "Escape" THEN FALSE
    ELSE IF key = "Enter" THEN FALSE ELSE mode

\* The view shows the edit input, whose key events call editTodo, only while
\* editMode is set; selectTodoToEdit has then set todoSelectedToEdit.
editTodo(key, raw) ==
    /\ Called
    /\ editMode
    /\ LET title == Trim(raw)
           sel   == todoSelectedToEdit
           h1    == assignTitle(heap, sel, title)
       IN CASE key = "Escape" ->
                 /\ SetGraph(h1, todos, tempTodos, aliased, sel)
                 /\ UNCHANGED storage
            [] key = "Enter" ->
                 LET m == MapEdit(h1, tempTodos, sel)
                 IN /\ Saved(m.h, todos, m.refs, FALSE, sel)
            [] OTHER ->
                 /\ Saved(h1, todos, tempTodos, aliased, sel)
    /\ editMode' = editModeOnKey(key, editMode)
    /\ Record("editTodo", key, raw, heap[todoSelectedToEdit].id, 0)
    /\ UNCHANGED << currentUrl, now, pc >>

\* Variant of pendingTodos: counts in tempTodos.
pendingOfVisible(h, td) == Len(FilterNotCompleted(h, tempTodos))

\* get pendingTodos(): the number of todos of this.todos that are not completed.
pendingTodos(h, td) == Len(FilterNotCompleted(h, td))

readPendingTodos ==
    /\ Called
    /\ Record("pendingTodos", "", <<>>, 0, pendingTodos(heap, todos))
    /\ UNCHANGED << heap, todos, tempTodos, aliased, editMode, todoSelectedToEdit,
                    currentUrl, storage, now, pc >>

clearCompleted ==
    /\ Called
    /\ IF currentUrl = "/completed"
       THEN LET tt == <<>>
                td == FilterCompletedFalse(heap, todos)
            IN /\ Saved(heap, td, tt, FALSE, todoSelectedToEdit)
       ELSE LET td == FilterCompletedFalse(heap, tempTodos)
                tt == td                          \* this.tempTodos = this.todos
            IN /\ Saved(heap, td, tt, TRUE, todoSelectedToEdit)
    /\ Record("clearCompleted", "", <<>>, 0, 0)
    /\ UNCHANGED << editMode, currentUrl, now, pc >>

\* ------------------------------------------------------------ specification
Ids == 1..(MaxStored + 1 + MaxCalls)

\* The todos a caller can hand to toggleCheck and deleteTodo, by id: those the
\* component holds in either list, and one it does not hold (a stale todo;
\* the handlers only compare ids, so one stands for all).
Targets ==
    LET held  == { heap[todos[i]].id : i \in DOMAIN todos }
                   \cup { heap[tempTodos[i]].id : i \in DOMAIN tempTodos }
        stale == Ids \ held
    IN held \cup { id \in stale : \A other \in stale : id <= other }

Next ==
    \/ \E url \in Routes : ngOnInit(url)
    \/ \E key \in Keys, raw \in RawTexts, t \in Ids : addNewTodo(key, raw, t)
    \/ \E id \in Targets : toggleCheck(id)
    \/ \E id \in Targets : deleteTodo(id)
    \/ \E i \in DOMAIN tempTodos : selectTodoToEdit(i)
    \/ \E key \in Keys, raw \in RawTexts : editTodo(key, raw)
    \/ readPendingTodos
    \/ clearCompleted

Spec == Init /\ [][Next]_vars

TypeOK ==
    /\ aliased => todos = tempTodos
    /\ Len(tempTodos) <= MaxStored + MaxCalls
    /\ Len(todos) <= MaxStored + MaxCalls
    /\ todoSelectedToEdit \in {Undefined} \cup DOMAIN heap
    /\ editMode => todoSelectedToEdit # Undefined

\* ------------------------------------------------- vocabulary of the claims
VisibleVals == Vals(heap, tempTodos)      \* visibleTodos, as values
AllVals == Vals(heap, todos)              \* allTodos, as values

IdsOf(list) == { list[i].id : i \in DOMAIN list }

\* The route filter, on values: /completed keeps the completed entries,
\* /pending the incomplete ones, any other route all of them.
RouteFilter(url, list) ==
    SelectSeq(list, LAMBDA t : /\ (url = "/completed" => t.completed)
                               /\ (url = "/pending" => ~t.completed))

Spaces(n) == [i \in 1..n |-> " "]

\* title is raw without its leading and trailing blanks.
IsTrimOf(title, raw) ==
    /\ title = <<>> \/ (title[1] # " " /\ title[Len(title)] # " ")
    /\ \E i, j \in 0..Len(raw) : raw = Spaces(i) \o title \o Spaces(j)

Persisting ==
    \/ last.op \in {"addNewTodo", "toggleCheck", "deleteTodo", "clearCompleted"}
    \/ last.op = "editTodo" /\ last.key # "Escape"

\* ----------------------------------------------------------------- claims

\* C1: addTodo (any key), toggleCompletion, commitEdit (any key) and
\* deleteTodo(t) keep in the stored list every id stored before the call,
\* except t.id for deleteTodo; only deleteTodo and clearCompleted remove a
\* todo from storage.
C1_StoredIdsKept ==
    /\ last.op \notin {"deleteTodo", "clearCompleted"}
          => IdsOf(pre.storage.value) \subseteq IdsOf(storage.value)
    /\ last.op = "deleteTodo"
          => IdsOf(pre.storage.value) \ {last.id} \subseteq IdsOf(storage.value)

\* C2: addTodo(rawText, "Enter") makes visibleTodos one longer, with the new
\* todo (title trim(rawText), not completed) at index 0 and the previous
\* entries after it in their previous order.
C2_AddAtFront ==
    (last.op = "addNewTodo" /\ last.key = "Enter") =>
        /\ Len(VisibleVals) = Len(pre.visible) + 1
        /\ IsTrimOf(VisibleVals[1].title, last.raw)
        /\ VisibleVals[1].completed = FALSE
        /\ Tail(VisibleVals) = pre.visible

C2_Witness ==
    /\ last.op = "addNewTodo" /\ last.key = "Enter"
    /\ Len(pre.visible) = 2
    /\ pre.visible[1].completed # pre.visible[2].completed
    /\ VisibleVals[1].title = <<"b">>

\* C3: toggleCompletion(t) flips completed on exactly the entries of
\* visibleTodos whose id is t.id, and a second toggleCompletion(t) right
\* after the first leaves visibleTodos, value for value and in order, as it
\* was before the first.
C3_ToggleTwice ==
    last.op = "toggleCheck" =>
        /\ DOMAIN VisibleVals = DOMAIN pre.visible
        /\ \A i \in DOMAIN pre.visible :
              VisibleVals[i] =
                  IF pre.visible[i].id = last.id
                  THEN [pre.visible[i] EXCEPT !.completed = ~pre.visible[i].completed]
                  ELSE pre.visible[i]
        /\ last.again => VisibleVals = pre.first

C3_Witness ==
    /\ last.op = "toggleCheck"
    /\ last.again
    /\ \E i, j \in DOMAIN VisibleVals :
          /\ VisibleVals[i].id = last.id
          /\ VisibleVals[j].id # last.id
          /\ VisibleVals[i].completed
          /\ VisibleVals[j].completed

\* What a fresh component on the same route shows, given what is stored now.
FreshVisible ==
    IF storage.set
    THEN LET h  == storage.value
             td == [i \in DOMAIN h |-> i]
         IN Vals(h, filterTodos(currentUrl, h, td).refs)
    ELSE <<>>

\* C4: after a persisting call, a fresh controller on the same route,
\* initialized from what is stored, shows the old controller's visibleTodos
\* with the route's filter applied.
C4_RoundTrip ==
    Persisting => FreshVisible = RouteFilter(currentUrl, VisibleVals)

\* C5: when the most recent list-changing call is initialize, deleteTodo or
\* clearCompleted, visibleTodos is allTodos filtered by the route.
C5_VisibleIsFilter ==
    last.listOp \in {"ngOnInit", "deleteTodo", "clearCompleted"}
        => VisibleVals = RouteFilter(currentUrl, AllVals)

\* C6: after clearCompleted() neither allTodos nor visibleTodos holds a
\* completed entry; off /completed the two are equal, on /completed
\* visibleTodos is empty.
C6_ClearCompleted ==
    last.op = "clearCompleted" =>
        /\ \A i \in DOMAIN AllVals : ~AllVals[i].completed
        /\ \A i \in DOMAIN VisibleVals : ~VisibleVals[i].completed
        /\ currentUrl # "/completed" => AllVals = VisibleVals
        /\ currentUrl = "/completed" => VisibleVals = <<>>

C6_Witness ==
    /\ last.op = "clearCompleted"
    /\ \E i \in DOMAIN pre.all : pre.all[i].completed
    /\ \E i \in DOMAIN pre.visible : pre.visible[i].completed
    /\ Len(todos) > 0

\* C7: selectForEdit(t) for an entry t of visibleTodos, then
\* commitEdit(rawText, "Escape"): edit mode is off, the entry t of
\* visibleTodos has title trim(rawText) and its id, and storage is as it was.
C7_EscapeKeepsTitle ==
    (last.op = "editTodo" /\ last.key = "Escape" /\ last.afterSelect) =>
        /\ editMode = FALSE
        /\ storage = pre.storage
        /\ DOMAIN VisibleVals = DOMAIN pre.visible
        /\ pre.selected # {}
        /\ \A i \in pre.selected :
              /\ VisibleVals[i].id = last.id
              /\ IsTrimOf(VisibleVals[i].title, last.raw)

C7_Witness ==
    /\ last.op = "editTodo" /\ last.key = "Escape" /\ last.afterSelect
    /\ currentUrl = "/"
    /\ \E i \in pre.selected :
          /\ pre.visible[i].title = <<"a">>
          /\ VisibleVals[i].title = <<"b">>
          /\ storage.value[i].title = <<"a">>

\* C8: editModeActive becomes true only by selectForEdit and false only by
\* commitEdit with Enter or Escape; commitEdit with another key and every
\* other operation leave it unchanged.
C8_EditGate ==
    /\ (~pre.editMode /\ editMode) => last.op = "selectTodoToEdit"
    /\ (pre.editMode /\ ~editMode)
          => (last.op = "editTodo" /\ last.key \in {"Enter", "Escape"})
    /\ (last.op = "editTodo" /\ last.key \notin {"Enter", "Escape"})
          => editMode = pre.editMode
    /\ last.op \in {"addNewTodo", "toggleCheck", "deleteTodo",
                    "clearCompleted", "pendingTodos"}
          => editMode = pre.editMode

C8_Witness ==
    /\ last.op = "editTodo" /\ last.key = "a"
    /\ editMode
    /\ pre.editMode

\* C9: countPending() returns the number of entries of allTodos (not of
\* visibleTodos) that are not completed, and changes neither list, nor the
\* edit state, nor what is stored.
C9_CountPending ==
    last.op = "pendingTodos" =>
        /\ last.ret = Cardinality({ i \in DOMAIN AllVals : AllVals[i].completed = FALSE })
        /\ AllVals = pre.all
        /\ VisibleVals = pre.visible
        /\ editMode = pre.editMode
        /\ pre.selected = { i \in DOMAIN tempTodos : tempTodos[i] = todoSelectedToEdit }
        /\ storage = pre.storage

C9_Witness ==
    /\ last.op = "pendingTodos"
    /\ last.ret = 1
    /\ Cardinality({ i \in DOMAIN VisibleVals : VisibleVals[i].completed = FALSE }) = 2

\* C10: after initialize(), with nothing stored both lists are empty;
\* otherwise allTodos is the stored list and visibleTodos is, in the same
\* order, the route's filter of it.
C10_Initialize ==
    last.op = "ngOnInit" =>
        IF storage.set
        THEN /\ AllVals = storage.value
             /\ VisibleVals = RouteFilter(currentUrl, storage.value)
        ELSE /\ AllVals = <<>>
             /\ VisibleVals = <<>>

C10_Witness ==
    /\ last.op = "ngOnInit"
    /\ currentUrl = "/pending"
    /\ Len(AllVals) = 2
    /\ Len(VisibleVals) = 1
    /\ AllVals[1].completed

\* C11: after addTodo with Enter the stored list contains the new todo, and
\* after toggleCompletion(t) every entry of visibleTodos with id t.id has a
\* stored entry with that id and the same completed value.
C11_MutationStored ==
    /\ (last.op = "addNewTodo" /\ last.key = "Enter")
          => \E j \in DOMAIN storage.value : storage.value[j] = VisibleVals[1]
    /\ last.op = "toggleCheck"
          => \A i \in DOMAIN VisibleVals :
                VisibleVals[i].id = last.id
                   => \E j \in DOMAIN storage.value :
                         /\ storage.value[j].id = last.id
                         /\ storage.value[j].completed = VisibleVals[i].completed

\* C12: while editModeActive is set, todoBeingEdited is, as an object, an
\* entry of visibleTodos.
C12_EditedIsVisible ==
    editMode => \E i \in DOMAIN tempTodos : tempTodos[i] = todoSelectedToEdit

\* C13: commitEdit(rawText, "Enter") changes only titles: every entry of
\* visibleTodos has after the commit the completed value it had just before.
C13_EnterKeepsCompleted ==
    (last.op = "editTodo" /\ last.key = "Enter") =>
        /\ DOMAIN VisibleVals = DOMAIN pre.visible
        /\ \A i \in DOMAIN pre.visible :
              VisibleVals[i].completed = pre.visible[i].completed

\* The positions at which two lists of the same length differ.
Changed(before, after) == { i \in DOMAIN before : after[i] # before[i] }

\* C14: the ids of the entries of visibleTodos are pairwise distinct, so
\* deleteTodo(t) removes at most one entry and toggleCompletion(t) flips at
\* most one.
C14_DistinctIds ==
    /\ \A i, j \in DOMAIN VisibleVals :
          VisibleVals[i].id = VisibleVals[j].id => i = j
    /\ last.op = "deleteTodo" => Len(pre.visible) - Len(VisibleVals) <= 1
    /\ last.op = "toggleCheck" => Cardinality(Changed(pre.visible, VisibleVals)) <= 1

\* The todos of a list, as a set.
Range(list) == { list[i] : i \in DOMAIN list }

\* deleteTodo, or commitEdit with Enter, whose target id no entry of
\* visibleTodos had when the call began.
AbsentTarget ==
    /\ \/ last.op = "deleteTodo"
       \/ last.op = "editTodo" /\ last.key = "Enter"
    /\ last.id \notin IdsOf(pre.visible)

\* C15: deleteTodo(t), or commitEdit with Enter, whose target id is the id
\* of no entry of visibleTodos leaves allTodos, visibleTodos and the set of
\* stored todos as they were.
C15_AbsentIdNoOp ==
    AbsentTarget =>
        /\ AllVals = pre.all
        /\ VisibleVals = pre.visible
        /\ Range(storage.value) = Range(pre.storage.value)

\* C16: deleteTodo(t) removes from visibleTodos exactly the entries with id
\* t.id, keeps the others with their fields and order, and leaves allTodos
\* equal to visibleTodos, on every route.
C16_DeleteTodo ==
    last.op = "deleteTodo" =>
        /\ VisibleVals = SelectSeq(pre.visible, LAMBDA t : t.id # last.id)
        /\ AllVals = VisibleVals

C16_Witness ==
    /\ last.op = "deleteTodo"
    /\ currentUrl = "/pending"
    /\ Len(pre.visible) = 2
    /\ Len(VisibleVals) = 1
    /\ pre.all # pre.visible
    /\ VisibleVals[1].completed

\* C17: right after addTodo (any key), toggleCompletion, deleteTodo,
\* clearCompleted and commitEdit with a key other than Escape, the stored
\* value is allTodos on /completed and visibleTodos on every other route;
\* selectForEdit, countPending and commitEdit with Escape write nothing.
C17_StoredList ==
    /\ Persisting =>
          storage = Stored(IF currentUrl = "/completed" THEN AllVals ELSE VisibleVals)
    /\ \/ last.op \in {"selectTodoToEdit", "pendingTodos"}
       \/ last.op = "editTodo" /\ last.key = "Escape"
       => storage = pre.storage

C17_Witness ==
    /\ last.op = "editTodo" /\ last.key = "a"
    /\ currentUrl = "/completed"
    /\ Len(AllVals) = 2
    /\ Len(VisibleVals) = 1
    /\ storage.value # pre.storage.value

\* todoBeingEdited now: the positions of visibleTodos that hold the object,
\* and its value.
SelectedNow == { i \in DOMAIN tempTodos : tempTodos[i] = todoSelectedToEdit }

EditedNow ==
    IF todoSelectedToEdit = Undefined THEN <<>> ELSE <<heap[todoSelectedToEdit]>>

\* C18: addTodo with a key other than Enter leaves allTodos, visibleTodos,
\* editModeActive and todoBeingEdited as they were.
C18_AddOtherKey ==
    (last.op = "addNewTodo" /\ last.key # "Enter") =>
        /\ AllVals = pre.all
        /\ VisibleVals = pre.visible
        /\ editMode = pre.editMode
        /\ SelectedNow = pre.selected
        /\ EditedNow = pre.edited

C18_Witness ==
    /\ last.op = "addNewTodo" /\ last.key = "a"
    /\ editMode
    /\ SelectedNow # {}
    /\ Len(AllVals) = 2
    /\ Len(VisibleVals) = 1

\* C19: clearCompleted() removes only completed todos: every entry shown in
\* visibleTodos as not completed just before the call is, just after it, in
\* allTodos and in the stored list.
C19_ClearKeepsPending ==
    last.op = "clearCompleted" =>
        \A i \in DOMAIN pre.visible :
            ~pre.visible[i].completed
               => /\ pre.visible[i] \in Range(AllVals)
                  /\ pre.visible[i] \in Range(storage.value)

\* C20: on the route "/", after initialize and any calls, countPending()
\* is the number of entries of visibleTodos that are not completed.
C20_PendingOnDefault ==
    (pc = "ready" /\ currentUrl = "/") =>
        pendingTodos(heap, todos)
            = Cardinality({ i \in DOMAIN VisibleVals : ~VisibleVals[i].completed })

====
